---- MODULE Spec2Model ----
(***************************************************************************)
(* Quiz API backend (server.js): the in-memory QuizService, its two        *)
(* collections, and the QuizController handlers in front of it.            *)
(*                                                                         *)
(* JavaScript values are modelled as follows: strings are TLA+ strings,    *)
(* arrays are sequences, objects are records, `undefined` is the           *)
(* distinguished string Undefined.  A call's outcome is a record           *)
(* [threw, message, value]: `throw new Error(m)` is [TRUE, m, <<>>] and    *)
(* `return v` is [FALSE, "", v].                                           *)
(***************************************************************************)
EXTENDS Integers, Sequences, FiniteSets, TLC

VARIABLES quizzes, questions, last

vars == <<quizzes, questions, last>>

(* ------------------------------ bounds -------------------------------- *)

MaxQuizzes == 2
MaxQuestions == 2
MaxAnswers == 2

(* ------------------------------ inputs -------------------------------- *)

Undefined == "<undefined>"
NoSuchId == "no-such-id"

\* uuidv4(): ids are opaque and never repeat.  The n-th id issued for a
\* collection is the n-th element of that collection's pool; the two pools
\* are disjoint, as two uuids are.
QuizUuids == <<"Q1", "Q2", "Q3", "Q4">>
QuestionUuids == <<"q1", "q2", "q3", "q4">>

uuidv4(pool, issued) == pool[issued + 1]

Titles == {"Math Quiz"}
Texts == {"What is 2+2?"}

optA == [id |-> "a", text |-> "3"]
optB == [id |-> "b", text |-> "4"]
optA2 == [id |-> "a", text |-> "4"]

\* option arrays handed to QuizService.addQuestion directly
OptionLists == {<<>>, <<optA, optB>>, <<optA, optA2>>}
CorrectIds == {"a", "b", "c"}
SelectedIds == {"a", "b"}

SeqsUpTo(S, n) == UNION {[1..k -> S] : k \in 0..n}

QuizIdInputs(qz) == {qz[i].id : i \in DOMAIN qz} \cup {NoSuchId}

AnswerEntries(qs) ==
  [questionId : {qs[i].id : i \in DOMAIN qs} \cup {NoSuchId},
   selectedOptionId : SelectedIds]

AnswerLists(qs) == SeqsUpTo(AnswerEntries(qs), MaxAnswers)

(* ------------------------------ models -------------------------------- *)

Quiz(id, title) == [id |-> id, title |-> title, questions |-> <<>>]

Question(id, quizId, text, options, correctOptionId) ==
  [id |-> id, quizId |-> quizId, text |-> text, options |-> options,
   correctOptionId |-> correctOptionId]

(* --------------------------- call outcomes ---------------------------- *)

Return(v) == [threw |-> FALSE, message |-> "", value |-> v]
Throw(m) == [threw |-> TRUE, message |-> m, value |-> <<>>]

Outcome(qz, qs, result) == [quizzes |-> qz, questions |-> qs, result |-> result]

(* ------------------------------ helpers ------------------------------- *)

\* quizzes.find(q => q.id === quizId): the index of the first match, 0 for
\* undefined
FindQuiz(qz, quizId) ==
  IF \E i \in DOMAIN qz : qz[i].id = quizId
  THEN CHOOSE i \in DOMAIN qz :
         /\ qz[i].id = quizId
         /\ \A j \in 1..(i - 1) : qz[j].id # quizId
  ELSE 0

\* mutant: options.find(opt => opt.id), the comparison dropped
FindOption_anyId(options, correctOptionId) ==
  \E i \in DOMAIN options : options[i].id # Undefined

\* options.find(opt => opt.id === correctOptionId) is an object (truthy)
FindOption(options, correctOptionId) ==
  \E i \in DOMAIN options : options[i].id = correctOptionId

\* questions.filter(q => q.quizId === quizId)
FilterByQuiz(qs, quizId) == SelectSeq(qs, LAMBDA q : q.quizId = quizId)

\* quizQuestions.find(q => q.id === answer.questionId)
FindQuestion(quizQuestions, questionId) ==
  IF \E i \in DOMAIN quizQuestions : quizQuestions[i].id = questionId
  THEN CHOOSE i \in DOMAIN quizQuestions :
         /\ quizQuestions[i].id = questionId
         /\ \A j \in 1..(i - 1) : quizQuestions[j].id # questionId
  ELSE 0

(* ---------------------------- QuizService ----------------------------- *)

\* createQuiz: (title) => { ... quizzes.push(quiz); return quiz; }
createQuiz(qz, qs, title) ==
  LET id == uuidv4(QuizUuids, Len(qz))
      quiz == Quiz(id, title)
  IN Outcome(Append(qz, quiz), qs, Return(quiz))

\* getAllQuizzes: quizzes.map(q => ({ id: q.id, title: q.title }))
getAllQuizzes(qz, qs) ==
  Outcome(qz, qs, Return([i \in DOMAIN qz |-> [id |-> qz[i].id, title |-> qz[i].title]]))

\* mutant: quiz.questions.unshift(id)
PushQuestionId_unshift(quiz, id) == [quiz EXCEPT !.questions = <<id>> \o @]

\* quiz.questions.push(id)
PushQuestionId(quiz, id) == [quiz EXCEPT !.questions = Append(@, id)]

\* mutant: the option check is made before the quiz lookup
addQuestion_optionFirst(qz, qs, quizId, text, options, correctOptionId) ==
  LET k == FindQuiz(qz, quizId) IN
  IF ~(\E i \in DOMAIN options : options[i].id = correctOptionId)
  THEN Outcome(qz, qs, Throw("Invalid correct option ID"))
  ELSE IF k = 0 THEN Outcome(qz, qs, Throw("Quiz not found"))
  ELSE LET id == uuidv4(QuestionUuids, Len(qs))
           question == Question(id, quizId, text, options, correctOptionId)
       IN Outcome([qz EXCEPT ![k].questions = Append(@, id)],
                  Append(qs, question),
                  Return(question))

\* mutant: questions.push(question) is made before the option check
addQuestion_pushFirst(qz, qs, quizId, text, options, correctOptionId) ==
  LET k == FindQuiz(qz, quizId) IN
  IF k = 0 THEN Outcome(qz, qs, Throw("Quiz not found"))
  ELSE LET id == uuidv4(QuestionUuids, Len(qs))
           question == Question(id, quizId, text, options, correctOptionId)
       IN IF ~(\E i \in DOMAIN options : options[i].id = correctOptionId)
          THEN Outcome(qz, Append(qs, question), Throw("Invalid correct option ID"))
          ELSE Outcome([qz EXCEPT ![k].questions = Append(@, id)],
                       Append(qs, question),
                       Return(question))

\* addQuestion: (quizId, text, options, correctOptionId) => { ... }
addQuestion(qz, qs, quizId, text, options, correctOptionId) ==
  LET k == FindQuiz(qz, quizId) IN
  IF k = 0 THEN Outcome(qz, qs, Throw("Quiz not found"))
  ELSE IF ~FindOption(options, correctOptionId)
  THEN Outcome(qz, qs, Throw("Invalid correct option ID"))
  ELSE LET id == uuidv4(QuestionUuids, Len(qs))
           question == Question(id, quizId, text, options, correctOptionId)
       IN Outcome([qz EXCEPT ![k] = PushQuestionId(qz[k], id)],
                  Append(qs, question),
                  Return(question))

\* mutant: the stored question is returned as it is
Projection_whole(q) == q

\* q => ({ id: q.id, text: q.text, options: q.options })
Projection(q) == [id |-> q.id, text |-> q.text, options |-> q.options]

\* mutant: no quiz lookup
getQuestions_noLookup(qz, qs, quizId) ==
  LET own == SelectSeq(qs, LAMBDA q : q.quizId = quizId)
  IN Outcome(qz, qs,
             Return([i \in DOMAIN own |->
                       [id |-> own[i].id, text |-> own[i].text,
                        options |-> own[i].options]]))

\* getQuestions: (quizId) => { ... }
getQuestions(qz, qs, quizId) ==
  IF FindQuiz(qz, quizId) = 0 THEN Outcome(qz, qs, Throw("Quiz not found"))
  ELSE LET own == FilterByQuiz(qs, quizId)
       IN Outcome(qz, qs, Return([i \in DOMAIN own |-> Projection(own[i])]))

\* mutant: answers.length < total
LengthMismatch_tooFew(answers, total) == Len(answers) < total

\* answers.length !== total
LengthMismatch(answers, total) == Len(answers) # total

\* mutant: each question is scored once, however often it is answered
ScoreAnswers_oncePerQuestion(quizQuestions, answers) ==
  Cardinality({i \in DOMAIN quizQuestions :
                 \E k \in DOMAIN answers :
                   /\ answers[k].questionId = quizQuestions[i].id
                   /\ answers[k].selectedOptionId = quizQuestions[i].correctOptionId})

\* mutant: the k-th answer is compared with the k-th question
ScoreAnswers_byPosition(quizQuestions, answers) ==
  Cardinality({k \in DOMAIN answers :
                 /\ k \in DOMAIN quizQuestions
                 /\ answers[k].questionId = quizQuestions[k].id
                 /\ answers[k].selectedOptionId = quizQuestions[k].correctOptionId})

\* let score = 0; answers.forEach(answer => { ... score++ ... })
RECURSIVE ScoreAnswers(_, _)
ScoreAnswers(quizQuestions, answers) ==
  IF answers = <<>> THEN 0
  ELSE LET answer == Head(answers)
           k == FindQuestion(quizQuestions, answer.questionId)
           hit == /\ k # 0
                  /\ quizQuestions[k].correctOptionId = answer.selectedOptionId
       IN (IF hit THEN 1 ELSE 0) + ScoreAnswers(quizQuestions, Tail(answers))

\* submitAnswers: (quizId, answers) => { ... return { score, total }; }
submitAnswers(qz, qs, quizId, answers) ==
  IF FindQuiz(qz, quizId) = 0 THEN Outcome(qz, qs, Throw("Quiz not found"))
  ELSE LET quizQuestions == FilterByQuiz(qs, quizId)
           total == Len(quizQuestions)
       IN IF LengthMismatch(answers, total)
          THEN Outcome(qz, qs, Throw("Answers must cover all questions"))
          ELSE Outcome(qz, qs,
                       Return([score |-> ScoreAnswers(quizQuestions, answers),
                               total |-> total]))

(* ------------------- calls on the exported QuizService ---------------- *)

NoCall == [op |-> "none", args |-> <<>>, result |-> <<>>]

Idle == last = NoCall

Apply(op, args, out) ==
  /\ Len(out.quizzes) <= MaxQuizzes
  /\ Len(out.questions) <= MaxQuestions
  /\ quizzes' = out.quizzes
  /\ questions' = out.questions
  /\ last' = [op |-> op, args |-> args, result |-> out.result]

CallCreateQuiz ==
  /\ Idle
  /\ \E title \in Titles :
       Apply("createQuiz", [title |-> title], createQuiz(quizzes, questions, title))

CallGetAllQuizzes ==
  /\ Idle
  /\ Apply("getAllQuizzes", <<>>, getAllQuizzes(quizzes, questions))

CallAddQuestion ==
  /\ Idle
  /\ \E quizId \in QuizIdInputs(quizzes), text \in Texts,
        options \in OptionLists, correctOptionId \in CorrectIds :
       Apply("addQuestion",
             [quizId |-> quizId, text |-> text, options |-> options,
              correctOptionId |-> correctOptionId],
             addQuestion(quizzes, questions, quizId, text, options, correctOptionId))

CallGetQuestions ==
  /\ Idle
  /\ \E quizId \in QuizIdInputs(quizzes) :
       Apply("getQuestions", [quizId |-> quizId],
             getQuestions(quizzes, questions, quizId))

CallSubmitAnswers ==
  /\ Idle
  /\ \E quizId \in QuizIdInputs(quizzes), answers \in AnswerLists(questions) :
       Apply("submitAnswers", [quizId |-> quizId, answers |-> answers],
             submitAnswers(quizzes, questions, quizId, answers))

\* the synchronous call has returned (or thrown) to its caller, which may
\* now make the next call
CallReturns ==
  /\ ~Idle
  /\ last' = NoCall
  /\ UNCHANGED <<quizzes, questions>>

Init ==
  /\ quizzes = <<>>
  /\ questions = <<>>
  /\ last = NoCall

Next ==
  \/ CallCreateQuiz
  \/ CallGetAllQuizzes
  \/ CallAddQuestion
  \/ CallGetQuestions
  \/ CallSubmitAnswers
  \/ CallReturns

Spec == Init /\ [][Next]_vars

(* --------------------------- QuizController --------------------------- *)

\* !v for a string-or-undefined body field
Falsy(v) == v \in {Undefined, ""}

\* a body field that may be an array: Array.isArray(v), !!v, and its items
JsonArray(items) == [isArray |-> TRUE, truthy |-> TRUE, items |-> items]
JsonUndefined == [isArray |-> FALSE, truthy |-> FALSE, items |-> <<>>]
JsonString == [isArray |-> FALSE, truthy |-> TRUE, items |-> <<>>]

\* res.status(status).json(body)
Response(status, body) == [status |-> status, body |-> body]

QuizController_createQuiz(qz, qs, body) ==
  IF Falsy(body.title)
  THEN Outcome(qz, qs, Response(400, [error |-> "Title is required"]))
  ELSE LET o == createQuiz(qz, qs, body.title) IN
       IF o.result.threw
       THEN Outcome(o.quizzes, o.questions, Response(500, [error |-> o.result.message]))
       ELSE Outcome(o.quizzes, o.questions,
                    Response(201, [id |-> o.result.value.id,
                                   title |-> o.result.value.title]))

QuizController_getAllQuizzes(qz, qs) ==
  LET o == getAllQuizzes(qz, qs) IN
  IF o.result.threw
  THEN Outcome(o.quizzes, o.questions, Response(500, [error |-> o.result.message]))
  ELSE Outcome(o.quizzes, o.questions, Response(200, o.result.value))

QuizController_addQuestion(qz, qs, quizId, body) ==
  IF Falsy(body.text) \/ ~body.options.truthy \/ Falsy(body.correctOptionId)
  THEN Outcome(qz, qs,
               Response(400, [error |-> "Text, options, and correctOptionId are required"]))
  ELSE IF ~body.options.isArray \/ Len(body.options.items) < 2
  THEN Outcome(qz, qs,
               Response(400, [error |-> "Options must be an array with at least 2 items"]))
  ELSE LET o == addQuestion(qz, qs, quizId, body.text, body.options.items,
                            body.correctOptionId) IN
       IF o.result.threw
       THEN Outcome(o.quizzes, o.questions, Response(400, [error |-> o.result.message]))
       ELSE Outcome(o.quizzes, o.questions,
                    Response(201, [id |-> o.result.value.id,
                                   text |-> o.result.value.text,
                                   options |-> o.result.value.options]))

QuizController_getQuestions(qz, qs, quizId) ==
  LET o == getQuestions(qz, qs, quizId) IN
  IF o.result.threw
  THEN Outcome(o.quizzes, o.questions, Response(404, [error |-> o.result.message]))
  ELSE Outcome(o.quizzes, o.questions, Response(200, o.result.value))

QuizController_submitAnswers(qz, qs, quizId, body) ==
  IF ~body.answers.isArray
  THEN Outcome(qz, qs, Response(400, [error |-> "Answers must be an array"]))
  ELSE LET o == submitAnswers(qz, qs, quizId, body.answers.items) IN
       IF o.result.threw
       THEN Outcome(o.quizzes, o.questions, Response(400, [error |-> o.result.message]))
       ELSE Outcome(o.quizzes, o.questions, Response(200, o.result.value))

(* ------------------------------- routes ------------------------------- *)

BodyTitles == Titles \cup {"", Undefined}
BodyTexts == Texts \cup {"", Undefined}
BodyCorrectIds == CorrectIds \cup {Undefined}
BodyOptionLists == {<<>>, <<optB>>, <<optA, optB>>, <<optA, optA2>>}
BodyOptions == {JsonUndefined, JsonString} \cup {JsonArray(l) : l \in BodyOptionLists}
BodyAnswers(qs) == {JsonUndefined, JsonString} \cup {JsonArray(l) : l \in AnswerLists(qs)}

\* app.post('/quizzes', QuizController.createQuiz)
RoutePostQuizzes ==
  /\ Idle
  /\ \E title \in BodyTitles :
       LET body == [title |-> title] IN
       Apply("POST /quizzes", [body |-> body],
             QuizController_createQuiz(quizzes, questions, body))

\* app.get('/quizzes', QuizController.getAllQuizzes)
RouteGetQuizzes ==
  /\ Idle
  /\ Apply("GET /quizzes", <<>>, QuizController_getAllQuizzes(quizzes, questions))

\* app.post('/quizzes/:quizId/questions', QuizController.addQuestion)
RoutePostQuestions ==
  /\ Idle
  /\ \E quizId \in QuizIdInputs(quizzes), text \in BodyTexts,
        options \in BodyOptions, correctOptionId \in BodyCorrectIds :
       LET body == [text |-> text, options |-> options,
                    correctOptionId |-> correctOptionId] IN
       Apply("POST /quizzes/:quizId/questions", [quizId |-> quizId, body |-> body],
             QuizController_addQuestion(quizzes, questions, quizId, body))

\* app.get('/quizzes/:quizId/questions', QuizController.getQuestions)
RouteGetQuestions ==
  /\ Idle
  /\ \E quizId \in QuizIdInputs(quizzes) :
       Apply("GET /quizzes/:quizId/questions", [quizId |-> quizId],
             QuizController_getQuestions(quizzes, questions, quizId))

\* app.post('/quizzes/:quizId/submit', QuizController.submitAnswers)
RoutePostSubmit ==
  /\ Idle
  /\ \E quizId \in QuizIdInputs(quizzes), answers \in BodyAnswers(questions) :
       LET body == [answers |-> answers] IN
       Apply("POST /quizzes/:quizId/submit", [quizId |-> quizId, body |-> body],
             QuizController_submitAnswers(quizzes, questions, quizId, body))

NextHttp ==
  \/ RoutePostQuizzes
  \/ RouteGetQuizzes
  \/ RoutePostQuestions
  \/ RouteGetQuestions
  \/ RoutePostSubmit
  \/ CallReturns

SpecHttp == Init /\ [][NextHttp]_vars

(* ------------------------- vocabulary of the claims ------------------- *)

QuizExists(quizId) == \E i \in DOMAIN quizzes : quizzes[i].id = quizId

\* positions, in the question collection, of the questions owned by quizId
OwnedAt(qs, quizId) == {i \in DOMAIN qs : qs[i].quizId = quizId}

\* the position of the k-th question owned by quizId, in insertion order
NthOwned(qs, quizId, k) ==
  CHOOSE i \in OwnedAt(qs, quizId) :
    Cardinality({j \in OwnedAt(qs, quizId) : j < i}) = k - 1

\* the answers (by position) that name a question of quizId and select its
\* correct option
CorrectAnswers(qs, quizId, answers) ==
  {k \in DOMAIN answers :
     \E i \in OwnedAt(qs, quizId) :
       /\ qs[i].id = answers[k].questionId
       /\ qs[i].correctOptionId = answers[k].selectedOptionId}

OptionIds(options) == {options[j].id : j \in DOMAIN options}

Rearrangements(s) ==
  {[k \in DOMAIN s |-> s[f[k]]] : f \in Permutations(DOMAIN s)}

Called(op) == last.op = op
Threw(m) == last.result.threw /\ last.result.message = m

(* -------------------------------- C1 ---------------------------------- *)

\* C1: submitAnswers on an existing quiz with as many answers as the quiz has
\* questions returns {score, total}: total is the number of stored questions
\* of the quiz, score the number of answers (with multiplicity) that name a
\* question of the quiz and select its correct option; answers naming any
\* other question add 0 and raise nothing; 0 <= score <= total.
C1_ScoreIsCountOfCorrectAnswers ==
  (/\ Called("submitAnswers")
   /\ QuizExists(last.args.quizId)
   /\ Len(last.args.answers) = Cardinality(OwnedAt(questions, last.args.quizId)))
  => /\ ~last.result.threw
     /\ DOMAIN last.result.value = {"score", "total"}
     /\ last.result.value.total = Cardinality(OwnedAt(questions, last.args.quizId))
     /\ last.result.value.score =
          Cardinality(CorrectAnswers(questions, last.args.quizId, last.args.answers))
     /\ 0 <= last.result.value.score
     /\ last.result.value.score <= last.result.value.total

\* a submission that selects the correct option of another quiz's question
\* was scored 0 of 1
C1_Witness ==
  /\ Called("submitAnswers")
  /\ ~last.result.threw
  /\ last.result.value = [score |-> 0, total |-> 1]
  /\ \E i \in DOMAIN questions :
       /\ questions[i].quizId # last.args.quizId
       /\ last.args.answers[1] = [questionId |-> questions[i].id,
                                  selectedOptionId |-> questions[i].correctOptionId]

(* -------------------------------- C2 ---------------------------------- *)

\* C2: submitAnswers on an existing quiz throws 'Answers must cover all
\* questions' whenever the number of answers differs from the number of the
\* quiz's questions, even if every answer given is correct; on a quiz without
\* questions only the empty answers succeed, with {score: 0, total: 0}.
C2_CountMismatchThrows ==
  (Called("submitAnswers") /\ QuizExists(last.args.quizId))
  => LET total == Cardinality(OwnedAt(questions, last.args.quizId)) IN
     /\ Len(last.args.answers) # total
          => Threw("Answers must cover all questions")
     /\ total = 0
          => (~last.result.threw <=> last.args.answers = <<>>)
     /\ (total = 0 /\ last.args.answers = <<>>)
          => last.result.value = [score |-> 0, total |-> 0]

\* one correct answer for a quiz of two questions was rejected
C2_Witness ==
  /\ Called("submitAnswers")
  /\ QuizExists(last.args.quizId)
  /\ Cardinality(OwnedAt(questions, last.args.quizId)) = 2
  /\ Len(last.args.answers) = 1
  /\ CorrectAnswers(questions, last.args.quizId, last.args.answers) = {1}
  /\ Threw("Answers must cover all questions")

(* -------------------------------- C3 ---------------------------------- *)

\* C3 as stated: addQuestion with a correctOptionId that is the id of no
\* element of options throws 'Invalid correct option ID' whatever quizId and
\* text are.
C3_Original ==
  (/\ Called("addQuestion")
   /\ last.args.correctOptionId \notin OptionIds(last.args.options))
  => Threw("Invalid correct option ID")

\* C3 amended: addQuestion with a correctOptionId that is the id of no element
\* of options always throws: 'Invalid correct option ID' when quizId is the id
\* of a stored quiz, 'Quiz not found' when it is not, whatever text is.
C3_InvalidOptionThrows ==
  (/\ Called("addQuestion")
   /\ last.args.correctOptionId \notin OptionIds(last.args.options))
  => IF QuizExists(last.args.quizId)
     THEN Threw("Invalid correct option ID")
     ELSE Threw("Quiz not found")

\* addQuestion on a stored quiz with options a, b and correctOptionId c threw
C3_Witness ==
  /\ Called("addQuestion")
  /\ QuizExists(last.args.quizId)
  /\ last.args.options = <<optA, optB>>
  /\ last.args.correctOptionId = "c"
  /\ Threw("Invalid correct option ID")

(* -------------------------------- C4 ---------------------------------- *)

\* C4: getQuestions and submitAnswers with a quizId that is the id of no
\* stored quiz throw 'Quiz not found', for every answers sequence (existence
\* is decided before the answer count), also when other quizzes and their
\* questions exist.
C4_UnknownQuizThrows ==
  (/\ Called("getQuestions") \/ Called("submitAnswers")
   /\ ~QuizExists(last.args.quizId))
  => Threw("Quiz not found")

\* a non-empty submission to an unknown quiz threw 'Quiz not found' while
\* another quiz and a question of it exist
C4_Witness ==
  /\ Called("submitAnswers")
  /\ ~QuizExists(last.args.quizId)
  /\ quizzes # <<>>
  /\ questions # <<>>
  /\ Len(last.args.answers) > 0
  /\ Threw("Quiz not found")

(* -------------------------------- C5 ---------------------------------- *)

\* C5: getQuestions on an existing quiz returns exactly the stored questions
\* of that quiz, in the insertion order of the question collection, each as
\* {id, text, options}: correctOptionId is in no returned element.
C5_QuestionsProjected ==
  (Called("getQuestions") /\ QuizExists(last.args.quizId))
  => LET own == OwnedAt(questions, last.args.quizId)
         got == last.result.value IN
     /\ ~last.result.threw
     /\ DOMAIN got = 1..Cardinality(own)
     /\ \A k \in DOMAIN got :
          LET q == questions[NthOwned(questions, last.args.quizId, k)] IN
          /\ DOMAIN got[k] = {"id", "text", "options"}
          /\ got[k].id = q.id
          /\ got[k].text = q.text
          /\ got[k].options = q.options

\* getQuestions returned the one question of a quiz while the other stored
\* question belongs to another quiz
C5_Witness ==
  /\ Called("getQuestions")
  /\ ~last.result.threw
  /\ Len(last.result.value) = 1
  /\ Len(questions) = 2
  /\ \E i \in DOMAIN questions : questions[i].quizId # last.args.quizId

(* -------------------------------- C6 ---------------------------------- *)

\* C6: in every reachable state every stored question's correctOptionId is the
\* id of at least one of its options.
C6_CorrectOptionAmongOptions ==
  \A i \in DOMAIN questions :
    \E j \in DOMAIN questions[i].options :
      questions[i].options[j].id = questions[i].correctOptionId

\* addQuestion with an invalid correctOptionId was just refused on a store
\* that already holds a question
C6_Witness ==
  /\ Called("addQuestion")
  /\ last.args.options # <<>>
  /\ Threw("Invalid correct option ID")
  /\ questions # <<>>

(* -------------------------------- C7 ---------------------------------- *)

\* C7: after any sequence of POST /quizzes/:quizId/questions requests every
\* stored question's option ids are pairwise distinct.
C7_OptionIdsDistinct ==
  \A i \in DOMAIN questions :
    \A j, k \in DOMAIN questions[i].options :
      j # k => questions[i].options[j].id # questions[i].options[k].id

(* -------------------------------- C8 ---------------------------------- *)

StoreUnchanged == quizzes' = quizzes /\ questions' = questions

C8_Step ==
  /\ last' = NoCall => StoreUnchanged
  /\ last'.op \in {"getAllQuizzes", "getQuestions", "submitAnswers"}
       => StoreUnchanged
  /\ (last'.op \in {"createQuiz", "addQuestion"} /\ last'.result.threw)
       => StoreUnchanged
  /\ (last'.op = "createQuiz" /\ ~last'.result.threw)
       => /\ questions' = questions
          /\ Len(quizzes') = Len(quizzes) + 1
          /\ \A i \in DOMAIN quizzes : quizzes'[i] = quizzes[i]
          /\ quizzes'[Len(quizzes')] = last'.result.value
          /\ quizzes'[Len(quizzes')].questions = <<>>
  /\ (last'.op = "addQuestion" /\ ~last'.result.threw)
       => /\ Len(questions') = Len(questions) + 1
          /\ \A i \in DOMAIN questions : questions'[i] = questions[i]
          /\ questions'[Len(questions')] = last'.result.value
          /\ DOMAIN quizzes' = DOMAIN quizzes
          /\ \A i \in DOMAIN quizzes :
               /\ quizzes'[i].id = quizzes[i].id
               /\ quizzes'[i].title = quizzes[i].title
               /\ quizzes'[i].questions =
                    IF quizzes[i].id = last'.args.quizId
                    THEN quizzes[i].questions \o <<last'.result.value.id>>
                    ELSE quizzes[i].questions

\* C8: both collections are append-only and change only on success: reads and
\* failing calls leave quizzes, their question ids and questions unchanged; a
\* successful createQuiz appends one quiz and nothing else; a successful
\* addQuestion appends one question and one id to the owning quiz only.
C8_AppendOnlyFrame == [][C8_Step]_vars

\* a second question was just added while two quizzes exist
C8_Witness ==
  /\ Called("addQuestion")
  /\ ~last.result.threw
  /\ Len(quizzes) = 2
  /\ Len(questions) = 2

(* -------------------------------- C9 ---------------------------------- *)

\* C9: scoring is order-independent: on an existing quiz, submitAnswers gives
\* the same outcome (the same {score, total} or the same error) for every
\* permutation of the answers.
C9_OrderIndependent ==
  (Called("submitAnswers") /\ QuizExists(last.args.quizId))
  => \A p \in Rearrangements(last.args.answers) :
       submitAnswers(quizzes, questions, last.args.quizId, p).result = last.result

\* two different answers, one right and one wrong, were scored 1 of 2
C9_Witness ==
  /\ Called("submitAnswers")
  /\ ~last.result.threw
  /\ Len(last.args.answers) = 2
  /\ last.args.answers[1].questionId # last.args.answers[2].questionId
  /\ last.result.value = [score |-> 1, total |-> 2]

(* -------------------------------- C10 --------------------------------- *)

\* C10: every quiz's own list of question ids equals, in order, the ids of the
\* stored questions whose quizId is that quiz's id; so getQuestions returns
\* the questions in the quiz's own order, and every id of a quiz's list names
\* exactly one stored question, owned by that quiz.
C10_QuizListMatchesCollection ==
  /\ \A i \in DOMAIN quizzes :
       LET own == OwnedAt(questions, quizzes[i].id) IN
       /\ DOMAIN quizzes[i].questions = 1..Cardinality(own)
       /\ \A k \in DOMAIN quizzes[i].questions :
            /\ quizzes[i].questions[k] =
                 questions[NthOwned(questions, quizzes[i].id, k)].id
            /\ Cardinality({j \in DOMAIN questions :
                              questions[j].id = quizzes[i].questions[k]}) = 1
  /\ (Called("getQuestions") /\ ~last.result.threw)
       => \A i \in DOMAIN quizzes :
            quizzes[i].id = last.args.quizId
              => quizzes[i].questions =
                   [k \in DOMAIN last.result.value |-> last.result.value[k].id]

\* getQuestions returned both questions of a quiz that owns two
C10_Witness ==
  /\ Called("getQuestions")
  /\ ~last.result.threw
  /\ Len(last.result.value) = 2
  /\ \E i \in DOMAIN quizzes :
       quizzes[i].id = last.args.quizId /\ Len(quizzes[i].questions) = 2

====
